---- MODULE Spec2Model ----
(***************************************************************************)
(* A model of SafeLVGL_Generator: the declaration model (c_obj_decl,       *)
(* c_func_obj_decl), the type resolver (__get_nesting_type__), the         *)
(* converter (c_decl_to_c_obj), the function collector (__add_lvgl_func__, *)
(* __parse_header__, parse), the version scan (get_lvgl_version) and the   *)
(* wrapper emitter (__gen_func_def__, __gen_func_decl__, gen_safe_lvgl).   *)
(*                                                                         *)
(* Text is modelled by TLA+ strings.  The pycparser AST is modelled by     *)
(* records that carry the node class in the field "kind" and otherwise the *)
(* attributes the generator reads.                                         *)
(***************************************************************************)
EXTENDS Integers, Sequences, FiniteSets, TLC

(***************************************************************************)
(* Bounds of the model.                                                    *)
(***************************************************************************)
\* top-level nodes processed over all parse calls
MaxNodes == 2
\* length of the blacklist pattern list
MaxPatterns == 2
\* lines of the version header
MaxLines == 3
\* pointer layers of an object declaration drawn for rendering
MaxPtr == 2
\* array layers of an object declaration drawn for rendering
MaxArr == 2
\* parameters of a function drawn for rendering
MaxParams == 2
\* the array and pointer wrappers of a declarator drawn for the type resolver
MaxWrap == 3

(***************************************************************************)
(* Python values.                                                          *)
(***************************************************************************)
\* Python's None where a str is expected (the name of an unnamed parameter).
None == "<None>"

\* The result of a str expression that raised TypeError.
Raised == "<TypeError>"

\* str + str; a None operand raises TypeError, and a raise propagates.
Add(a, b) ==
    IF a = Raised \/ b = Raised \/ a = None \/ b = None THEN Raised ELSE a \o b

\* sep.join(list)
RECURSIVE Join(_, _)
Join(list, sep) ==
    IF Len(list) = 0 THEN ""
    ELSE IF Len(list) = 1 THEN list[1]
    ELSE list[1] \o sep \o Join(Tail(list), sep)

(***************************************************************************)
(* c_obj_decl and c_func_obj_decl.                                         *)
(***************************************************************************)
c_obj_decl(name, quals, align, storage, real_type, array_layers, pointer_layers) ==
    [ class          |-> "c_obj_decl",
      name           |-> name,
      quals          |-> quals,
      align          |-> align,
      storage        |-> storage,
      type           |-> real_type,
      array_layers   |-> array_layers,
      pointer_layers |-> pointer_layers ]

c_func_obj_decl(name, quals, storge, funcspec, return_type, array_layers, pointer_layers, params) ==
    [ class          |-> "c_func_obj_decl",
      name           |-> name,
      quals          |-> quals,
      align          |-> <<>>,
      storage        |-> storge,
      type           |-> return_type,
      array_layers   |-> array_layers,
      pointer_layers |-> pointer_layers,
      funcspec       |-> funcspec,
      return_type    |-> return_type,
      params         |-> params ]

\* the loop of type_to_str: one "*" per pointer layer
RECURSIVE pointer_stars(_)
pointer_stars(n) == IF n <= 0 THEN "" ELSE "*" \o pointer_stars(n - 1)

\* type_to_str with no pointer layers rendered: a plausible bug
type_to_str_no_ptr(self) == self.type

type_to_str(self) ==
    IF self.pointer_layers # 0
    THEN (self.type \o " ") \o pointer_stars(self.pointer_layers)
    ELSE self.type

\* the loop of name_to_str: one "[]" per array layer
RECURSIVE array_brackets(_, _)
array_brackets(name, n) ==
    IF n <= 0 THEN name ELSE array_brackets(Add(name, "[]"), n - 1)

name_to_str(self, with_array) ==
    IF with_array THEN array_brackets(self.name, self.array_layers) ELSE self.name

quals_to_str(self) == Join(self.quals, " ")

align_to_str(self) == Join(self.align, " ")

storage_to_str(self) == Join(self.storage, " ")

funcspec_to_str(self) == Join(self.funcspec, " ")

\* c_obj_decl.to_str
to_str(self, semicolon, with_array) ==
    LET quals   == quals_to_str(self)
        align   == align_to_str(self)
        storage == storage_to_str(self)
        d1 == IF quals # "" THEN quals \o " " ELSE ""
        d2 == IF align # "" THEN d1 \o align \o " " ELSE d1
        d3 == IF storage # "" THEN d2 \o storage \o " " ELSE d2
        d4 == IF type_to_str(self) # "void"
              THEN Add(d3, Add(type_to_str(self) \o " ", name_to_str(self, with_array)))
              ELSE d3 \o type_to_str(self)
    IN  IF semicolon THEN Add(d4, ";") ELSE d4

\* c_func_obj_decl.params_to_str
RECURSIVE params_join(_, _)
params_join(params, i) ==
    IF i > Len(params) THEN ""
    ELSE IF i = Len(params) THEN to_str(params[i], FALSE, TRUE)
    ELSE Add(Add(to_str(params[i], FALSE, TRUE), ", "), params_join(params, i + 1))

params_to_str(self) == params_join(self.params, 1)

\* c_func_obj_decl.to_str
func_to_str(self, semicolon) ==
    LET quals    == quals_to_str(self)
        storage  == storage_to_str(self)
        funcspec == funcspec_to_str(self)
        d1 == IF quals # "" THEN quals \o " " ELSE ""
        d2 == IF storage # "" THEN d1 \o storage \o " " ELSE d1
        d3 == IF funcspec # "" THEN d2 \o funcspec \o " " ELSE d2
        d4 == Add(d3, Add(Add(Add(Add(type_to_str(self) \o " ", name_to_str(self, TRUE)),
                                  "("), params_to_str(self)), ")"))
    IN  IF semicolon THEN Add(d4, ";") ELSE d4

\* the parameter loop of gen_func_call, from index i on
RECURSIVE func_param(_, _)
func_param(params, i) ==
    IF i > Len(params) THEN ""
    ELSE LET p == params[i]
             piece == IF i < Len(params)
                      THEN (IF type_to_str(p) # "void" THEN Add(p.name, ", ") ELSE "")
                      ELSE (IF type_to_str(p) # "void" THEN Add("", p.name) ELSE "")
         IN  Add(piece, func_param(params, i + 1))

\* c_func_obj_decl.gen_func_call
gen_func_call(self) ==
    IF type_to_str(self) # "void"
    THEN Add(Add(Add(Add(type_to_str(self) \o " ret = ", self.name), "("),
                 func_param(self.params, 1)), ");")
    ELSE Add(Add(Add(self.name, "("), func_param(self.params, 1)), ");")

(***************************************************************************)
(* The pycparser AST, as far as the generator inspects it.  Every node is  *)
(* a record whose field "kind" is the node class.                          *)
(***************************************************************************)
IdentifierType(names) == [kind |-> "IdentifierType", names |-> names]

Struct(name) == [kind |-> "Struct", name |-> name]

Enum(name) == [kind |-> "Enum", name |-> name]

Union(name) == [kind |-> "Union", name |-> name]

TypeDecl(type) == [kind |-> "TypeDecl", type |-> type]

PtrDecl(type) == [kind |-> "PtrDecl", type |-> type]

ArrayDecl(type) == [kind |-> "ArrayDecl", type |-> type]

Typename(name, quals, type) ==
    [kind |-> "Typename", name |-> name, quals |-> quals, type |-> type]

EllipsisParam == [kind |-> "EllipsisParam"]

\* FuncDecl.args is a ParamList, or None for an empty parameter list "()"
ParamList(params) == [kind |-> "ParamList", params |-> params]

NoArgs == [kind |-> "NoneType"]

FuncDecl(args, type) == [kind |-> "FuncDecl", args |-> args, type |-> type]

Decl(name, quals, align, storage, funcspec, type) ==
    [kind |-> "Decl", name |-> name, quals |-> quals, align |-> align,
     storage |-> storage, funcspec |-> funcspec, type |-> type]

FuncDef(decl) == [kind |-> "FuncDef", decl |-> decl]

Typedef(name) == [kind |-> "Typedef", name |-> name]

(***************************************************************************)
(* Results of a call that may raise: exc is "" on a normal return and the  *)
(* class of the exception otherwise.                                       *)
(***************************************************************************)
Return(val) == [exc |-> "", val |-> val]

Raise(exc) == [exc |-> exc, val |-> <<>>]

\* the exception classes `except NotImplementedError` catches
IsNotImplementedError(exc) == exc \in {"NotImplementedError", "EllipsisParamException"}

(***************************************************************************)
(* __get_nesting_type__                                                    *)
(***************************************************************************)
\* while isinstance(child_node, ArrayDecl): <<node reached, layers counted>>
RECURSIVE nesting_arrays(_, _)
nesting_arrays(child_node, layers) ==
    IF child_node.kind = "ArrayDecl"
    THEN nesting_arrays(child_node.type, layers + 1)
    ELSE <<child_node, layers>>

\* one pointer layer is unwrapped, with `if` for `while`: a plausible bug
nesting_pointers_once(child_node, layers) ==
    IF child_node.kind = "PtrDecl"
    THEN <<child_node.type, layers + 1>>
    ELSE <<child_node, layers>>

\* while isinstance(child_node, PtrDecl): <<node reached, layers counted>>
RECURSIVE nesting_pointers(_, _)
nesting_pointers(child_node, layers) ==
    IF child_node.kind = "PtrDecl"
    THEN nesting_pointers(child_node.type, layers + 1)
    ELSE <<child_node, layers>>

\* the value is <<c_obj_type, c_obj_array_layers, c_obj_pointer_layers>>
get_nesting_type(node) ==
    LET a  == nesting_arrays(node, 0)
        p  == nesting_pointers(a[1], 0)
        c1 == p[1]
        c2 == IF c1.kind = "Typename" THEN c1.type ELSE c1
    IN  IF c2.kind = "TypeDecl"
        THEN LET parent_type == c2.type
             IN  IF parent_type.kind = "Struct"
                 THEN IF Add("struct ", parent_type.name) = Raised
                      THEN Raise("TypeError")
                      ELSE Return(<<"struct " \o parent_type.name, a[2], p[2]>>)
                 ELSE IF parent_type.kind = "IdentifierType"
                 THEN Return(<<parent_type.names[1], a[2], p[2]>>)
                 ELSE Raise("Exception")
        ELSE Raise("Exception")

(***************************************************************************)
(* c_decl_to_c_obj                                                         *)
(***************************************************************************)
RECURSIVE c_decl_to_c_obj(_)
RECURSIVE convert_params(_, _)

\* for param in node.type.args: c_obj_params.append(c_decl_to_c_obj(param))
convert_params(params, i) ==
    IF i > Len(params) THEN Return(<<>>)
    ELSE LET r == c_decl_to_c_obj(params[i])
         IN  IF r.exc # "" THEN Raise(r.exc)
             ELSE LET rest == convert_params(params, i + 1)
                  IN  IF rest.exc # "" THEN rest
                      ELSE Return(<<r.val>> \o rest.val)

\* the branch `isinstance(node, Decl)` with node.type a FuncDecl
convert_function(node) ==
    IF node.type.args.kind # "ParamList" THEN Raise("TypeError")
    ELSE LET ps == convert_params(node.type.args.params, 1)
         IN  IF ps.exc # "" THEN Raise(ps.exc)
             ELSE LET t == get_nesting_type(node.type.type)
                  IN  IF t.exc # "" THEN Raise(t.exc)
                      ELSE Return(c_func_obj_decl(node.name, node.quals, node.storage,
                                                  node.funcspec, t.val[1], t.val[2],
                                                  t.val[3], ps.val))

\* an object built from the value of __get_nesting_type__
object_of(name, quals, storage, t) ==
    IF t.exc # "" THEN Raise(t.exc)
    ELSE Return(c_obj_decl(name, quals, <<>>, storage, t.val[1], t.val[2], t.val[3]))

c_decl_to_c_obj(node) ==
    IF node.kind = "Decl" THEN
        IF Len(node.align) > 0 THEN Raise("Exception")
        ELSE IF node.type.kind = "ArrayDecl"
        THEN object_of(node.name, node.quals, node.storage, get_nesting_type(node.type))
        ELSE IF node.type.kind = "Decl" THEN Raise("Exception")
        ELSE IF node.type.kind = "Enum"
        THEN IF Add("enum ", node.type.name) = Raised THEN Raise("TypeError")
             ELSE Return(c_obj_decl(node.name, node.quals, <<>>, node.storage,
                                    "enum " \o node.type.name, 0, 0))
        ELSE IF node.type.kind = "FuncDecl" THEN convert_function(node)
        ELSE IF node.type.kind \in {"PtrDecl", "TypeDecl"}
        THEN object_of(node.name, node.quals, node.storage, get_nesting_type(node.type))
        ELSE IF node.type.kind = "Typename"
        THEN LET t == get_nesting_type(node.type.type)
             IN  IF t.exc # "" THEN Raise(t.exc) ELSE Raise("Exception")
        ELSE Raise("Exception")
    ELSE IF node.kind = "TypeDecl"
    THEN object_of("", <<>>, <<>>, get_nesting_type(node))
    ELSE IF node.kind = "Typename" THEN
        IF node.type.kind = "TypeDecl"
        THEN object_of(node.name, node.quals, <<>>, get_nesting_type(node))
        ELSE Raise("Exception")
    ELSE IF node.kind = "EllipsisParam" THEN Raise("EllipsisParamException")
    ELSE Raise("TypeError")

(***************************************************************************)
(* Regular expressions.  A blacklist pattern is modelled by the literal    *)
(* text it matches; the version patterns are matched as compiled.          *)
(***************************************************************************)
\* the i-th character of text
CharAt(text, i) == SubSeq(text, i, i)

\* whether text has the literal lit at index i
HasLiteral(text, i, lit) ==
    /\ i + Len(lit) - 1 <= Len(text)
    /\ SubSeq(text, i, i + Len(lit) - 1) = lit

\* a pattern that must match the whole name: a plausible bug
pattern_fullmatch(pattern, string) == pattern = string

\* pattern.match(string): the pattern matches at the start of the string
pattern_match(pattern, string) == HasLiteral(string, 1, pattern)

\* [ ]+ from index i: the index after the spaces
RECURSIVE SkipSpaces(_, _)
SkipSpaces(text, i) ==
    IF i <= Len(text) /\ CharAt(text, i) = " " THEN SkipSpaces(text, i + 1) ELSE i

Digits == {"0", "1", "2", "3", "4", "5", "6", "7", "8", "9"}

\* [0-9]+ from index i: the index after the digits
RECURSIVE SkipDigits(_, _)
SkipDigits(text, i) ==
    IF i <= Len(text) /\ CharAt(text, i) \in Digits THEN SkipDigits(text, i + 1) ELSE i

DigitValue(c) ==
    CASE c = "0" -> 0 [] c = "1" -> 1 [] c = "2" -> 2 [] c = "3" -> 3 [] c = "4" -> 4
      [] c = "5" -> 5 [] c = "6" -> 6 [] c = "7" -> 7 [] c = "8" -> 8 [] c = "9" -> 9

\* int(text) of a digit string
RECURSIVE int(_)
int(text) ==
    IF Len(text) = 0 THEN 0
    ELSE 10 * int(SubSeq(text, 1, Len(text) - 1)) + DigitValue(CharAt(text, Len(text)))

\* line.replace(c, ""), c one character
RECURSIVE replace_char(_, _)
replace_char(line, c) ==
    IF Len(line) = 0 THEN ""
    ELSE IF CharAt(line, 1) = c THEN replace_char(SubSeq(line, 2, Len(line)), c)
    ELSE CharAt(line, 1) \o replace_char(SubSeq(line, 2, Len(line)), c)

\* re.compile(r"^(\#define){1}[ ]+(<macro>){1}[ ]+(?P<v>[0-9]+)", re.X).match(line):
\* matched is FALSE when the value is None, and version is int(ret.group("v"))
version_match(macro, line) ==
    LET i1 == Len("#define") + 1
        i2 == SkipSpaces(line, i1)
        i3 == i2 + Len(macro)
        i4 == SkipSpaces(line, i3)
        i5 == SkipDigits(line, i4)
    IN  IF /\ HasLiteral(line, 1, "#define")
           /\ i2 > i1
           /\ HasLiteral(line, i2, macro)
           /\ i4 > i3
           /\ i5 > i4
        THEN [matched |-> TRUE, version |-> int(SubSeq(line, i4, i5 - 1))]
        ELSE [matched |-> FALSE, version |-> 0]

(***************************************************************************)
(* get_lvgl_version                                                        *)
(***************************************************************************)
\* the fields are set to 0 before the scan
version_reset(major, minor, patch) == <<0, 0, 0>>

\* a field takes every match, the last one winning: a plausible bug
version_field_last(field, m) == IF m.matched THEN m.version ELSE field

\* a field that is 0 takes the version of a match
version_field(field, m) == IF field = 0 /\ m.matched THEN m.version ELSE field

\* the loop over the lines of lvgl.h, from line i on; v is <<major, minor, patch>>
RECURSIVE scan_lines(_, _, _)
scan_lines(lines, i, v) ==
    IF i > Len(lines) THEN v
    ELSE LET line == replace_char(replace_char(lines[i], "\r"), "\n")
         IN  scan_lines(lines, i + 1,
                 << version_field(v[1], version_match("LVGL_VERSION_MAJOR", line)),
                    version_field(v[2], version_match("LVGL_VERSION_MINOR", line)),
                    version_field(v[3], version_match("LVGL_VERSION_PATCH", line)) >>)

\* the value is [major, minor, patch], which the fields hold after the call
get_lvgl_version(lines, major, minor, patch) ==
    scan_lines(lines, 1, version_reset(major, minor, patch))

(***************************************************************************)
(* The function collector.                                                 *)
(***************************************************************************)
\* the blacklist loop of __add_lvgl_func__
in_blacklist(patterns, func_name) ==
    \E i \in 1..Len(patterns) : pattern_match(patterns[i], func_name)

\* no collected function is compared: a plausible bug
already_added_never(list, func_name) == FALSE

\* the duplicate loop of __add_lvgl_func__
already_added(list, func_name) ==
    \E i \in 1..Len(list) : list[i].name = func_name

\* the function is put in front: a plausible bug
func_list_prepend(list, func) == <<func>> \o list

\* self.__func_list__.append(func)
func_list_append(list, func) == Append(list, func)

\* what a call leaves: the list, the value returned, the exception that
\* escaped ("" when none) and the path taken
Left(list, ret, exc, outcome) ==
    [func_list |-> list, ret |-> ret, exc |-> exc, outcome |-> outcome]

\* a function whose conversion failed is collected with the parameters
\* converted so far dropped: a plausible bug
add_lvgl_func_keep_partial(list, patterns, func_node) ==
    LET func_name == func_node.name
    IN  IF in_blacklist(patterns, func_name) THEN Left(list, FALSE, "", "blacklist")
        ELSE IF already_added(list, func_name) THEN Left(list, FALSE, "", "duplicate")
        ELSE LET r == c_decl_to_c_obj(func_node)
                 partial == c_func_obj_decl(func_name, <<>>, <<>>, <<>>, "int", 0, 0, <<>>)
             IN  IF r.exc = "" THEN Left(func_list_append(list, r.val), TRUE, "", "added")
                 ELSE IF IsNotImplementedError(r.exc)
                 THEN Left(func_list_append(list, partial), FALSE, "", "warning")
                 ELSE Left(func_list_append(list, partial), FALSE, r.exc, "raised")

\* the signature is converted before the name is checked: a plausible bug
add_lvgl_func_convert_first(list, patterns, func_node) ==
    LET func_name == func_node.name
        r == c_decl_to_c_obj(func_node)
    IN  IF r.exc # "" /\ IsNotImplementedError(r.exc) THEN Left(list, FALSE, "", "warning")
        ELSE IF r.exc # "" THEN Left(list, FALSE, r.exc, "raised")
        ELSE IF in_blacklist(patterns, func_name) THEN Left(list, FALSE, "", "blacklist")
        ELSE IF already_added(list, func_name) THEN Left(list, FALSE, "", "duplicate")
        ELSE Left(func_list_append(list, r.val), TRUE, "", "added")

\* __add_lvgl_func__
add_lvgl_func(list, patterns, func_node) ==
    LET func_name == func_node.name
    IN  IF in_blacklist(patterns, func_name) THEN Left(list, FALSE, "", "blacklist")
        ELSE IF already_added(list, func_name) THEN Left(list, FALSE, "", "duplicate")
        ELSE LET r == c_decl_to_c_obj(func_node)
             IN  IF r.exc = "" THEN Left(func_list_append(list, r.val), TRUE, "", "added")
                 ELSE IF IsNotImplementedError(r.exc) THEN Left(list, FALSE, "", "warning")
                 ELSE Left(list, FALSE, r.exc, "raised")

\* one iteration of the loop of __parse_header__
parse_node(list, patterns, node) ==
    IF node.kind = "FuncDef" THEN add_lvgl_func(list, patterns, node.decl)
    ELSE IF node.kind = "Decl" /\ node.type.kind = "FuncDecl"
    THEN add_lvgl_func(list, patterns, node)
    ELSE Left(list, FALSE, "", "ignored")

(***************************************************************************)
(* The wrapper emitter.  The function templates are files the generator is *)
(* given; an emitted entry is modelled by the text that replaces each      *)
(* token of the template.                                                  *)
(***************************************************************************)
\* the name is assigned to the function itself, with no copy made: a
\* plausible bug
rename_in_place(function, name) ==
    [copy |-> [function EXCEPT !.name = name],
     original |-> [function EXCEPT !.name = name]]

\* safe_func_decl = copy.deepcopy(function); safe_func_decl.name = name:
\* the copy, and the object the collected list still holds
deepcopy_rename(function, name) ==
    [copy |-> [function EXCEPT !.name = name], original |-> function]

\* the wrapper is declared under the original name: a plausible bug
gen_func_def_unprefixed(function) ==
    Return([func_decl |-> func_to_str(function, FALSE),
            func_call |-> gen_func_call(function),
            func_ret  |-> IF function.type # "void" THEN "return ret;" ELSE "",
            func_comms |-> ""])

\* __gen_func_def__
gen_func_def(function) ==
    LET safe_func_decl == deepcopy_rename(function, Add("safe_", function.name)).copy
        decl == func_to_str(safe_func_decl, FALSE)
        call == gen_func_call(function)
        ret  == IF function.type # "void" THEN "return ret;" ELSE ""
    IN  IF decl = Raised \/ call = Raised THEN Raise("TypeError")
        ELSE Return([func_decl |-> decl, func_call |-> call,
                     func_ret |-> ret, func_comms |-> ""])

\* __gen_func_decl__
gen_func_decl(function) ==
    LET safe_func_decl == deepcopy_rename(function, Add("safe_", function.name)).copy
        decl == func_to_str(safe_func_decl, FALSE)
        call == gen_func_call(function)
        ret  == IF function.type # "void" THEN "return ret;" ELSE ""
    IN  IF decl = Raised \/ call = Raised THEN Raise("TypeError")
        ELSE Return([func_decl |-> decl, func_call |-> call,
                     func_ret |-> ret, func_comms |-> ""])

\* the collected object as one generation of its definition or declaration
\* leaves it
left_by_gen(function) ==
    deepcopy_rename(function, Add("safe_", function.name)).original

\* SafeLVGLGenerator._gen_func_def: the prefix is the one the generator was
\* constructed with
prefixed_gen_func_def(safe_lvgl_prefix, function) ==
    LET safe_func_decl == deepcopy_rename(function, Add(safe_lvgl_prefix, function.name)).copy
        decl == func_to_str(safe_func_decl, FALSE)
        call == gen_func_call(function)
        ret  == IF function.type # "void" THEN "return ret;" ELSE ""
    IN  IF decl = Raised \/ call = Raised THEN Raise("TypeError")
        ELSE Return([func_decl |-> decl, func_call |-> call,
                     func_ret |-> ret, func_comms |-> ""])

\* SafeLVGLGenerator._gen_func_decl
prefixed_gen_func_decl(safe_lvgl_prefix, function) ==
    LET safe_func_decl == deepcopy_rename(function, Add(safe_lvgl_prefix, function.name)).copy
        decl == func_to_str(safe_func_decl, FALSE)
        call == gen_func_call(function)
        ret  == IF function.type # "void" THEN "return ret;" ELSE ""
    IN  IF decl = Raised \/ call = Raised THEN Raise("TypeError")
        ELSE Return([func_decl |-> decl, func_call |-> call,
                     func_ret |-> ret, func_comms |-> ""])

(***************************************************************************)
(* The state.                                                              *)
(***************************************************************************)
VARIABLES
    blacklist_func_patterns, \* self.__blacklist_func_patterns__
    func_list,               \* self.__func_list__
    lvgl_version_major,      \* self.lvgl_version_major
    lvgl_version_minor,      \* self.lvgl_version_minor
    lvgl_version_patch,      \* self.lvgl_version_patch
    lvgl_h,                  \* the lines of <lvgl_path>/lvgl.h the version scan reads
    pc,                      \* "idle", or "parse" inside the loop of __parse_header__
    hist,                    \* the top-level nodes processed so far, with what became of each
    result,                  \* the last call: how it ended and what it returned
    safe_lvgl_c,             \* the contents blob written to safe_lvgl.c
    safe_lvgl_h,             \* the contents blob written to safe_lvgl.h
    rin,                     \* the argument of the last rendering call
    rout                     \* what the last rendering call returned

vars == <<blacklist_func_patterns, func_list, lvgl_version_major, lvgl_version_minor,
          lvgl_version_patch, lvgl_h, pc, hist, result,
          safe_lvgl_c, safe_lvgl_h, rin, rout>>

collector_vars == <<blacklist_func_patterns, func_list, pc, hist,
                    safe_lvgl_c, safe_lvgl_h>>

version_vars == <<lvgl_version_major, lvgl_version_minor, lvgl_version_patch, lvgl_h>>

render_vars == <<rin, rout>>

(***************************************************************************)
(* The rendering of declarations: the inputs are drawn from bounded sets.  *)
(***************************************************************************)
\* the sequences over S of length 1..n
SeqsUpTo(S, n) == UNION {[1..k -> S] : k \in 1..n}

IntType == TypeDecl(IdentifierType(<<"int">>))

VoidType == TypeDecl(IdentifierType(<<"void">>))

CharType == TypeDecl(IdentifierType(<<"char">>))

\* int a | char *b | void | int (unnamed)
RenderParams ==
    { Decl("a", <<>>, <<>>, <<>>, <<>>, IntType),
      Decl("b", <<>>, <<>>, <<>>, <<>>, PtrDecl(CharType)),
      Typename(None, <<>>, VoidType),
      Typename(None, <<>>, IntType) }

RenderReturnTypes == { IntType, VoidType, PtrDecl(IntType), PtrDecl(VoidType) }

\* the function declarations drawn for rendering
RenderFunctions ==
    { Decl(n, <<>>, <<>>, <<>>, <<>>, FuncDecl(ParamList(ps), t)) :
        n \in {"f", "g"}, ps \in SeqsUpTo(RenderParams, MaxParams), t \in RenderReturnTypes }

\* the object declarations drawn for rendering
RenderObjects ==
    { c_obj_decl(n, q, <<>>, <<>>, t, a, p) :
        n \in {"n", "buf", ""}, q \in {<<>>, <<"const">>},
        t \in {"int", "void", "struct s"}, a \in 0..MaxArr, p \in 0..MaxPtr }

RenderInit ==
    /\ rin = [op |-> "none"]
    /\ rout = [op |-> "none"]

\* type_to_str, name_to_str and to_str of one object declaration
RenderObject ==
    /\ \E o \in RenderObjects :
        /\ rin' = [op |-> "to_str", obj |-> o]
        /\ rout' = [op |-> "to_str",
                    type_str |-> type_to_str(o),
                    name_str |-> name_to_str(o, TRUE),
                    decl     |-> to_str(o, FALSE, TRUE),
                    decl_semicolon |-> to_str(o, TRUE, TRUE)]
    /\ UNCHANGED <<collector_vars, version_vars, result>>

\* a function declaration is converted, then emitted
RenderFunction ==
    /\ \E node \in RenderFunctions :
        LET r == c_decl_to_c_obj(node)
        IN  /\ r.exc = ""
            /\ rin' = [op |-> "gen", func |-> r.val]
            /\ rout' = [op |-> "gen",
                        call     |-> gen_func_call(r.val),
                        func_def |-> gen_func_def(r.val),
                        func_decl |-> gen_func_decl(r.val)]
    /\ UNCHANGED <<collector_vars, version_vars, result>>

\* the prefixes a SafeLVGLGenerator is constructed with
Prefixes == {"safe_", "lv_safe_"}

\* the function declarations of one parameter
WrappedFunctions == {node \in RenderFunctions : Len(node.type.args.params) = 1}

\* a function declaration is converted, then emitted under a configured prefix
RenderWrapper ==
    /\ \E node \in WrappedFunctions, safe_lvgl_prefix \in Prefixes :
        LET r == c_decl_to_c_obj(node)
        IN  /\ r.exc = ""
            /\ rin' = [op |-> "wrap", func |-> r.val, prefix |-> safe_lvgl_prefix]
            /\ rout' = [op |-> "wrap",
                        func_def  |-> prefixed_gen_func_def(safe_lvgl_prefix, r.val),
                        func_decl |-> prefixed_gen_func_decl(safe_lvgl_prefix, r.val)]
    /\ UNCHANGED <<collector_vars, version_vars, result>>

\* the array and pointer wrappers of a declarator, the outermost first
Wrappers == {<<>>} \cup SeqsUpTo({"ArrayDecl", "PtrDecl"}, MaxWrap)

\* int | unsigned long | struct s | enum e | union u
Terminals ==
    { TypeDecl(IdentifierType(<<"int">>)),
      TypeDecl(IdentifierType(<<"unsigned", "long">>)),
      TypeDecl(Struct("s")),
      TypeDecl(Enum("e")),
      TypeDecl(Union("u")) }

\* the declarator of the given wrappers around the terminal
RECURSIVE Declarator(_, _)
Declarator(wrappers, terminal) ==
    IF Len(wrappers) = 0 THEN terminal
    ELSE IF Head(wrappers) = "ArrayDecl"
    THEN ArrayDecl(Declarator(Tail(wrappers), terminal))
    ELSE PtrDecl(Declarator(Tail(wrappers), terminal))

\* a declarator is resolved, alone and as the type of the parameter p
ResolveType ==
    /\ \E wrappers \in Wrappers, terminal \in Terminals :
        /\ rin' = [op |-> "resolve", wrappers |-> wrappers, terminal |-> terminal]
        /\ rout' = [op |-> "resolve",
                    type  |-> get_nesting_type(Declarator(wrappers, terminal)),
                    param |-> c_decl_to_c_obj(Decl("p", <<>>, <<>>, <<>>, <<>>,
                                                   Declarator(wrappers, terminal)))]
    /\ UNCHANGED <<collector_vars, version_vars, result>>

RenderNext == RenderObject \/ RenderFunction \/ RenderWrapper \/ ResolveType

(***************************************************************************)
(* The version scan: the header is any sequence of the lines below.        *)
(***************************************************************************)
VersionLines ==
    { "#define LVGL_VERSION_MAJOR 9",
      "#define LVGL_VERSION_MINOR 2",
      "#define LVGL_VERSION_PATCH 1\r\n",
      "#define LVGL_VERSION_MAJOR 8",
      "#define  LVGL_VERSION_MINOR   0",
      " #define LVGL_VERSION_MAJOR 7" }

\* the header the collector's runs read
DefaultHeader ==
    << "#define LVGL_VERSION_PATCH 1\r\n",
       "#define LVGL_VERSION_MAJOR 9",
       "#define LVGL_VERSION_MINOR 2" >>

\* a line is written at the end of lvgl.h
WriteLine ==
    /\ Len(lvgl_h) < MaxLines
    /\ \E line \in VersionLines : lvgl_h' = Append(lvgl_h, line)
    /\ result' = [op |-> "write", exc |-> ""]
    /\ UNCHANGED <<lvgl_version_major, lvgl_version_minor, lvgl_version_patch,
                   collector_vars, render_vars>>

\* lvgl.h is emptied
TruncateHeader ==
    /\ lvgl_h' = <<>>
    /\ result' = [op |-> "write", exc |-> ""]
    /\ UNCHANGED <<lvgl_version_major, lvgl_version_minor, lvgl_version_patch,
                   collector_vars, render_vars>>

\* a call of get_lvgl_version
GetLvglVersion ==
    /\ pc = "idle"
    /\ LET v == get_lvgl_version(lvgl_h, lvgl_version_major, lvgl_version_minor,
                                 lvgl_version_patch)
       IN  /\ lvgl_version_major' = v[1]
           /\ lvgl_version_minor' = v[2]
           /\ lvgl_version_patch' = v[3]
           /\ result' = [op |-> "get_lvgl_version", exc |-> "", ret |-> v,
                         fresh |-> <<lvgl_version_major, lvgl_version_minor,
                                     lvgl_version_patch>> = <<0, 0, 0>>]
    /\ UNCHANGED <<lvgl_h, collector_vars, render_vars>>

VersionNext == WriteLine \/ TruncateHeader \/ GetLvglVersion

(***************************************************************************)
(* The collector and the emitter: the top-level nodes of the header are    *)
(* drawn from the set below, one per iteration of __parse_header__.        *)
(***************************************************************************)
\* a function declaration with no qualifier, alignment, storage or specifier
Function(name, params, type) ==
    Decl(name, <<>>, <<>>, <<>>, <<>>, FuncDecl(ParamList(params), type))

ParamA == Decl("a", <<>>, <<>>, <<>>, <<>>, IntType)

ParamB == Decl("b", <<>>, <<>>, <<>>, <<>>, PtrDecl(CharType))

ParamVoid == Typename(None, <<>>, VoidType)

\* union u u
ParamUnion == Decl("u", <<>>, <<>>, <<>>, <<>>, TypeDecl(Union("u")))

\* int (*cb)(int)
ParamCallback ==
    Decl("cb", <<>>, <<>>, <<>>, <<>>,
         PtrDecl(FuncDecl(ParamList(<<Typename(None, <<>>, IntType)>>), IntType)))

TopLevelNodes ==
    { \* int lv_foo(int a);
      Function("lv_foo", <<ParamA>>, IntType),
      \* void lv_foo(void);
      Function("lv_foo", <<ParamVoid>>, VoidType),
      \* int lv_foo(int a, char *b, ...);
      Function("lv_foo", <<ParamA, ParamB, EllipsisParam>>, IntType),
      \* int *lv_public(int a, char *b) { }
      FuncDef(Function("lv_public", <<ParamA, ParamB>>, PtrDecl(IntType))),
      \* void lv_public(int (*cb)(int));
      Function("lv_public", <<ParamCallback>>, VoidType),
      \* void _lv_internal(void);
      Function("_lv_internal", <<ParamVoid>>, VoidType),
      \* void lv_bar(union u u);
      Function("lv_bar", <<ParamUnion>>, VoidType),
      \* void lv_bar(union u u, ...);
      Function("lv_bar", <<ParamUnion, EllipsisParam>>, VoidType),
      \* _Alignas(8) int lv_al(int a);
      Decl("lv_al", <<>>, <<"_Alignas(8)">>, <<>>, <<>>,
           FuncDecl(ParamList(<<ParamA>>), IntType)),
      \* enum e lv_en(int a);
      Function("lv_en", <<ParamA>>, TypeDecl(Enum("e"))),
      \* void lv_cb(int);
      Function("lv_cb", <<Typename(None, <<>>, IntType)>>, VoidType),
      \* typedef int lv_coord_t;
      Typedef("lv_coord_t"),
      \* extern struct s lv_font;
      Decl("lv_font", <<>>, <<>>, <<"extern">>, <<>>, TypeDecl(Struct("s"))) }

\* the patterns add_blacklist_func_pattern is called with
AddedPatterns == {"lv_p"}

\* load_default_block_strategy: re.compile(r"^(_lv){1}", re.X)
default_block_strategy == <<"_lv">>

Unwritten == [written |-> FALSE, contents |-> <<>>]

Init ==
    /\ blacklist_func_patterns = default_block_strategy
    /\ func_list = <<>>
    /\ lvgl_version_major = 0
    /\ lvgl_version_minor = 0
    /\ lvgl_version_patch = 0
    /\ lvgl_h = DefaultHeader
    /\ pc = "idle"
    /\ hist = <<>>
    /\ result = [op |-> "__init__", exc |-> ""]
    /\ safe_lvgl_c = Unwritten
    /\ safe_lvgl_h = Unwritten
    /\ RenderInit

\* load_default_block_strategy
LoadDefaultBlockStrategy ==
    /\ pc = "idle"
    /\ blacklist_func_patterns' = default_block_strategy
    /\ result' = [op |-> "configure", exc |-> ""]
    /\ UNCHANGED <<func_list, pc, hist, safe_lvgl_c, safe_lvgl_h,
                   version_vars, render_vars>>

\* add_blacklist_func_pattern
AddBlacklistFuncPattern ==
    /\ pc = "idle"
    /\ Len(blacklist_func_patterns) < MaxPatterns
    /\ \E func_pattern \in AddedPatterns :
        blacklist_func_patterns' = Append(blacklist_func_patterns, func_pattern)
    /\ result' = [op |-> "configure", exc |-> ""]
    /\ UNCHANGED <<func_list, pc, hist, safe_lvgl_c, safe_lvgl_h,
                   version_vars, render_vars>>

\* list_blacklist_func_patterns returns the list itself, which the caller empties
ListBlacklistFuncPatternsClear ==
    /\ pc = "idle"
    /\ blacklist_func_patterns' = <<>>
    /\ result' = [op |-> "configure", exc |-> ""]
    /\ UNCHANGED <<func_list, pc, hist, safe_lvgl_c, safe_lvgl_h,
                   version_vars, render_vars>>

\* parse, up to the loop of __parse_header__
ParseBegin ==
    /\ pc = "idle"
    /\ LET v == IF lvgl_version_major = 0
                THEN get_lvgl_version(lvgl_h, lvgl_version_major, lvgl_version_minor,
                                      lvgl_version_patch)
                ELSE <<lvgl_version_major, lvgl_version_minor, lvgl_version_patch>>
       IN  /\ lvgl_version_major' = v[1]
           /\ lvgl_version_minor' = v[2]
           /\ lvgl_version_patch' = v[3]
    /\ pc' = "parse"
    /\ result' = [op |-> "parse", exc |-> "", running |-> TRUE]
    /\ UNCHANGED <<blacklist_func_patterns, func_list, hist, safe_lvgl_c, safe_lvgl_h,
                   lvgl_h, render_vars>>

\* one iteration of the loop of __parse_header__; an exception that escapes
\* __add_lvgl_func__ ends the parse call
ParseNode ==
    /\ pc = "parse"
    /\ Len(hist) < MaxNodes
    /\ \E node \in TopLevelNodes :
        LET r == parse_node(func_list, blacklist_func_patterns, node)
        IN  /\ func_list' = r.func_list
            /\ hist' = Append(hist, [node |-> node, outcome |-> r.outcome])
            /\ pc' = IF r.exc # "" THEN "idle" ELSE "parse"
            /\ result' = IF r.exc # ""
                          THEN [op |-> "parse", exc |-> r.exc, running |-> FALSE]
                          ELSE result
    /\ UNCHANGED <<blacklist_func_patterns, safe_lvgl_c, safe_lvgl_h,
                   version_vars, render_vars>>

\* the loop of __parse_header__ is over: parse returns the number of functions
ParseReturn ==
    /\ pc = "parse"
    /\ pc' = "idle"
    /\ result' = [op |-> "parse", exc |-> "", running |-> FALSE, ret |-> Len(func_list)]
    /\ UNCHANGED <<blacklist_func_patterns, func_list, hist,
                   safe_lvgl_c, safe_lvgl_h, version_vars, render_vars>>

\* each entry is put in front of the content: a plausible bug
RECURSIVE contents_reversed(_, _, _)
contents_reversed(list, i, deffn) ==
    IF i > Len(list) THEN Return(<<>>)
    ELSE LET e == IF deffn THEN gen_func_def(list[i]) ELSE gen_func_decl(list[i])
         IN  IF e.exc # "" THEN Raise(e.exc)
             ELSE LET rest == contents_reversed(list, i + 1, deffn)
                  IN  IF rest.exc # "" THEN rest
                      ELSE Return(rest.val \o <<[entry |-> e.val, sep |-> "\r\n\r\n"]>>)

\* the loop `for func in self.__func_list__: content += gen(func) + "\r\n\r\n"`
RECURSIVE contents_of(_, _, _)
contents_of(list, i, deffn) ==
    IF i > Len(list) THEN Return(<<>>)
    ELSE LET e == IF deffn THEN gen_func_def(list[i]) ELSE gen_func_decl(list[i])
         IN  IF e.exc # "" THEN Raise(e.exc)
             ELSE LET rest == contents_of(list, i + 1, deffn)
                  IN  IF rest.exc # "" THEN rest
                      ELSE Return(<<[entry |-> e.val, sep |-> "\r\n\r\n"]>> \o rest.val)

\* gen_safe_lvgl, with __output_safe_lvgl_api__: an exception that escapes
\* a generation ends the call before the file is written
GenSafeLvgl ==
    /\ pc = "idle"
    /\ \E source \in {contents_of(func_list, 1, TRUE)},
          header \in {contents_of(func_list, 1, FALSE)} :
           /\ func_list' = [i \in 1..Len(func_list) |-> left_by_gen(func_list[i])]
           /\ safe_lvgl_c' = IF source.exc # "" THEN safe_lvgl_c
                             ELSE [written |-> TRUE, contents |-> source.val]
           /\ safe_lvgl_h' = IF source.exc # "" \/ header.exc # "" THEN safe_lvgl_h
                             ELSE [written |-> TRUE, contents |-> header.val]
           /\ result' = [op |-> "gen_safe_lvgl",
                         exc |-> IF source.exc # "" THEN source.exc ELSE header.exc]
    /\ UNCHANGED <<blacklist_func_patterns, pc, hist, version_vars, render_vars>>

Next ==
    \/ LoadDefaultBlockStrategy
    \/ AddBlacklistFuncPattern
    \/ ListBlacklistFuncPatternsClear
    \/ ParseBegin
    \/ ParseNode
    \/ ParseReturn
    \/ GenSafeLvgl

Spec == Init /\ [][Next]_vars

\* the declaration model alone, on drawn declarations
SpecRender == Init /\ [][RenderNext]_vars

\* the version scan alone, on drawn headers
SpecVersion == Init /\ [][VersionNext]_vars

(***************************************************************************)
(* What the claims speak of.                                               *)
(***************************************************************************)
\* a top-level node of one of the two function shapes
IsFunctionNode(node) ==
    \/ node.kind = "FuncDef"
    \/ node.kind = "Decl" /\ node.type.kind = "FuncDecl"

\* the declaration a function node carries
FunctionDeclOf(node) == IF node.kind = "FuncDef" THEN node.decl ELSE node

\* the name a top-level function node declares ("" for any other node)
NodeName(node) == IF IsFunctionNode(node) THEN FunctionDeclOf(node).name ELSE ""

\* the parameter list of the declaration has the ellipsis marker
HasEllipsis(decl) ==
    /\ decl.type.args.kind = "ParamList"
    /\ \E i \in 1..Len(decl.type.args.params) :
          decl.type.args.params[i].kind = "EllipsisParam"

\* the node a declarator chain ends in, under its array and pointer wrappers
RECURSIVE Terminal(_)
Terminal(t) == IF t.kind \in {"ArrayDecl", "PtrDecl"} THEN Terminal(t.type) ELSE t

\* a union or enum type, or a pointer to a function
UnsupportedType(t) ==
    \/ Terminal(t).kind # "TypeDecl"
    \/ Terminal(t).type.kind \in {"Union", "Enum"}

\* the declaration uses a construct the generator does not support
UnsupportedDecl(decl) ==
    \/ Len(decl.align) > 0
    \/ UnsupportedType(decl.type.type)
    \/ /\ decl.type.args.kind = "ParamList"
       /\ \E i \in 1..Len(decl.type.args.params) :
             /\ decl.type.args.params[i].kind = "Decl"
             /\ UnsupportedType(decl.type.args.params[i].type)

\* text begins with prefix
StartsWith(text, prefix) ==
    \E k \in 0..Len(text) : SubSeq(text, 1, k) = prefix

\* text ends with suffix
EndsWith(text, suffix) ==
    \E k \in 1..(Len(text) + 1) : SubSeq(text, k, Len(text)) = suffix

\* the index of the first "(" of text, from index i on
RECURSIVE FirstParen(_, _)
FirstParen(text, i) ==
    IF i > Len(text) \/ SubSeq(text, i, i) = "(" THEN i ELSE FirstParen(text, i + 1)

\* the text between the first "(" of a call and its closing ");"
ArgumentList(call) == SubSeq(call, FirstParen(call, 1) + 1, Len(call) - 2)

\* the last node processed, with what became of it
LastNode == hist[Len(hist)]

(***************************************************************************)
(* C1                                                                      *)
(***************************************************************************)
\* C1: a function whose conversion fails because of an unsupported construct
\* (union type, alignment specifier, unresolvable base type, function-pointer
\* parameter) is discarded with a warning and the parse call goes on: no
\* exception escapes the call.
C1_FailureIsLocal ==
    /\ \A i \in 1..Len(hist) :
          ( /\ IsFunctionNode(hist[i].node)
            /\ UnsupportedDecl(FunctionDeclOf(hist[i].node))
            /\ hist[i].outcome \notin {"blacklist", "duplicate"} )
          => hist[i].outcome = "warning"
    /\ result.op = "parse" => result.exc = ""

(***************************************************************************)
(* C2                                                                      *)
(***************************************************************************)
\* C2: a function whose parameter list has the ellipsis marker is never
\* collected, whatever the parameters before the marker, it is in neither
\* emitted blob, and processing it does not end the parse call with an
\* exception.
C2_VariadicDropped ==
    /\ \A i \in 1..Len(hist) :
          ( IsFunctionNode(hist[i].node) /\ HasEllipsis(FunctionDeclOf(hist[i].node)) )
          => hist[i].outcome \in {"blacklist", "duplicate", "warning"}
    /\ \A i \in 1..Len(func_list) :
          \E k \in 1..Len(hist) :
             /\ IsFunctionNode(hist[k].node)
             /\ ~HasEllipsis(FunctionDeclOf(hist[k].node))
             /\ c_decl_to_c_obj(FunctionDeclOf(hist[k].node)) = Return(func_list[i])
    /\ Len(safe_lvgl_c.contents) <= Len(func_list)
    /\ Len(safe_lvgl_h.contents) <= Len(func_list)

\* What holds of the code: a variadic function none of whose other parts is
\* unsupported is discarded with a warning (or as blacklisted or duplicate).
C2_VariadicDroppedWhenSupported ==
    \A i \in 1..Len(hist) :
       ( /\ IsFunctionNode(hist[i].node)
         /\ HasEllipsis(FunctionDeclOf(hist[i].node))
         /\ ~UnsupportedDecl(FunctionDeclOf(hist[i].node)) )
       => hist[i].outcome \in {"blacklist", "duplicate", "warning"}

(***************************************************************************)
(* C3                                                                      *)
(***************************************************************************)
\* C3: in every reachable state the names of the collected functions are
\* pairwise distinct.
C3_UniqueNames ==
    \A i, j \in 1..Len(func_list) :
       i # j => func_list[i].name # func_list[j].name

\* a function was collected and a later node of the same name was discarded
C3_Witness ==
    /\ Len(hist) = 2
    /\ hist[1].outcome = "added"
    /\ hist[2].outcome = "duplicate"
    /\ NodeName(hist[1].node) = NodeName(hist[2].node)
    /\ Len(func_list) = 1

(***************************************************************************)
(* C4                                                                      *)
(***************************************************************************)
\* the first function node processed that declares the name
FirstOccurrence(name) ==
    CHOOSE k \in 1..Len(hist) :
       /\ NodeName(hist[k].node) = name
       /\ \A j \in 1..(k - 1) : NodeName(hist[j].node) # name

\* C4 (as claimed): the entry collected for a name is the one converted from
\* the first function node of that name in source order.
C4_FirstOccurrenceWins ==
    \A i \in 1..Len(func_list) :
       c_decl_to_c_obj(FunctionDeclOf(hist[FirstOccurrence(func_list[i].name)].node))
          = Return(func_list[i])

\* C4 (amended): the entry collected for a name is the one converted from the
\* first function node of that name that was not blacklisted and whose
\* conversion succeeded; every later node of that name is discarded, and the
\* earlier ones were blacklisted or failed to convert.
C4_FirstCollectedWins ==
    \A i \in 1..Len(func_list) :
       \E k \in 1..Len(hist) :
          /\ NodeName(hist[k].node) = func_list[i].name
          /\ hist[k].outcome = "added"
          /\ c_decl_to_c_obj(FunctionDeclOf(hist[k].node)) = Return(func_list[i])
          /\ \A j \in 1..Len(hist) :
                NodeName(hist[j].node) = func_list[i].name =>
                   /\ j < k => hist[j].outcome \in {"blacklist", "warning", "raised"}
                   /\ j > k => hist[j].outcome \in {"blacklist", "duplicate"}

\* int lv_foo(int a) then void lv_foo(void): the int-returning one is kept
C4_Witness ==
    /\ Len(hist) = 2
    /\ hist[1].node = Function("lv_foo", <<ParamA>>, IntType)
    /\ hist[2].node = Function("lv_foo", <<ParamVoid>>, VoidType)
    /\ hist[2].outcome = "duplicate"
    /\ Len(func_list) = 1
    /\ func_list[1].name = "lv_foo"
    /\ func_list[1].type = "int"

(***************************************************************************)
(* C5                                                                      *)
(***************************************************************************)
\* C5: a function node is discarded as blacklisted exactly when some
\* configured pattern matches from the first character of its name; under the
\* default pattern _lv_internal is excluded and lv_public is not, and with an
\* empty pattern list nothing is excluded.
C5_BlacklistIsPrefixMatch ==
    [][ ( Len(hist') = Len(hist) + 1 /\ IsFunctionNode(hist'[Len(hist')].node) ) =>
          LET name     == NodeName(hist'[Len(hist')].node)
              excluded == hist'[Len(hist')].outcome = "blacklist"
              patterns == blacklist_func_patterns
          IN  /\ excluded <=> \E i \in 1..Len(patterns) : StartsWith(name, patterns[i])
              /\ (patterns = <<"_lv">> /\ name = "_lv_internal") => excluded
              /\ (patterns = <<"_lv">> /\ name = "lv_public") => ~excluded
              /\ patterns = <<>> => ~excluded
      ]_vars

\* _lv_internal was excluded under the default pattern, which is shorter than
\* the name
C5_Witness ==
    /\ pc = "parse"
    /\ Len(hist) > 0
    /\ blacklist_func_patterns = <<"_lv">>
    /\ NodeName(LastNode.node) = "_lv_internal"
    /\ LastNode.outcome = "blacklist"

(***************************************************************************)
(* C6                                                                      *)
(***************************************************************************)
\* the nodes that were collected, in the order they were processed
CollectedNodes == SelectSeq(hist, LAMBDA h : h.outcome = "added")

\* C6: the collected sequence lists the collected functions in the order of
\* their top-level nodes, and a node of neither function shape adds nothing.
C6_DiscoveryOrder ==
    /\ Len(func_list) = Len(CollectedNodes)
    /\ \A i \in 1..Len(func_list) :
          /\ IsFunctionNode(CollectedNodes[i].node)
          /\ c_decl_to_c_obj(FunctionDeclOf(CollectedNodes[i].node)) = Return(func_list[i])
    /\ \A i \in 1..Len(hist) :
          ~IsFunctionNode(hist[i].node) => hist[i].outcome = "ignored"

\* two functions were collected, one after the other
C6_Witness ==
    /\ Len(hist) = 2
    /\ hist[1].outcome = "added"
    /\ hist[2].outcome = "added"
    /\ Len(func_list) = 2
    /\ func_list[1].name = NodeName(hist[1].node)
    /\ func_list[2].name = NodeName(hist[2].node)

(***************************************************************************)
(* C7                                                                      *)
(***************************************************************************)
\* the parameters whose rendered type is not "void"
CallParams(f) == SelectSeq(f.params, LAMBDA p : type_to_str(p) # "void")

\* the names of the parameters, in order
RECURSIVE NamesOf(_)
NamesOf(params) ==
    IF Len(params) = 0 THEN <<>> ELSE <<params[1].name>> \o NamesOf(Tail(params))

\* every parameter that goes into the call has a name
CallParamsNamed(f) ==
    \A i \in 1..Len(f.params) :
       type_to_str(f.params[i]) # "void" => f.params[i].name # None

\* C7: the argument list of gen_func_call is the names of the parameters
\* whose rendered type is not "void", in order, joined with ", ", with no
\* separator before the first or after the last.
C7_CallArguments ==
    ( rin.op = "gen" /\ CallParamsNamed(rin.func) ) =>
       ArgumentList(rout.call) = Join(NamesOf(CallParams(rin.func)), ", ")

\* What holds of the code: the argument list is as claimed when the last
\* parameter is not a void one, and void f(void) gives "f();".
C7_CallArgumentsLastNotVoid ==
    /\ ( /\ rin.op = "gen"
         /\ CallParamsNamed(rin.func)
         /\ Len(rin.func.params) > 0
         /\ type_to_str(rin.func.params[Len(rin.func.params)]) # "void" ) =>
          ArgumentList(rout.call) = Join(NamesOf(CallParams(rin.func)), ", ")
    /\ ( /\ rin.op = "gen"
         /\ rin.func.name = "f"
         /\ type_to_str(rin.func) = "void"
         /\ Len(rin.func.params) = 1
         /\ type_to_str(rin.func.params[1]) = "void" ) => rout.call = "f();"

(***************************************************************************)
(* C8                                                                      *)
(***************************************************************************)
\* C8: for a return type that is not "void" the emitted definition has the
\* call fragment "<rendered return type> ret = <name>(<args>);" and the
\* return fragment "return ret;"; for the return type "void" the call
\* fragment is "<name>(<args>);" and the return fragment is empty.
C8_CallAndReturnFragments ==
    ( rin.op = "gen" /\ rout.func_def.exc = "" ) =>
       LET f == rin.func
           d == rout.func_def.val
       IN  IF type_to_str(f) # "void"
           THEN /\ StartsWith(d.func_call, type_to_str(f) \o " ret = " \o f.name \o "(")
                /\ EndsWith(d.func_call, ");")
                /\ d.func_ret = "return ret;"
           ELSE /\ StartsWith(d.func_call, f.name \o "(")
                /\ EndsWith(d.func_call, ");")
                /\ d.func_ret = ""

\* What holds of the code: the fragments are as claimed when the base type of
\* the return type is not void; int* g(int a, char* b) gives the claimed text.
C8_FragmentsWhenBaseNotVoid ==
    /\ ( rin.op = "gen" /\ rout.func_def.exc = "" /\ rin.func.type # "void" ) =>
          /\ StartsWith(rout.func_def.val.func_call,
                        type_to_str(rin.func) \o " ret = " \o rin.func.name \o "(")
          /\ rout.func_def.val.func_ret = "return ret;"
    /\ ( /\ rin.op = "gen"
         /\ rin.func.name = "g"
         /\ rin.func.type = "int"
         /\ rin.func.pointer_layers = 1
         /\ NamesOf(rin.func.params) = <<"a", "b">> ) =>
          /\ rout.func_def.exc = ""
          /\ rout.func_def.val.func_call = "int * ret = g(a, b);"
          /\ rout.func_def.val.func_ret = "return ret;"

(***************************************************************************)
(* C9                                                                      *)
(***************************************************************************)
\* C9: for an object declaration with P pointer layers, A array layers, base
\* type T and name n, type_to_str followed by name_to_str(with_array = True),
\* with the space to_str puts between them, is T, then " " and P asterisks if
\* P > 0, then " ", then n, then A times "[]".
C9_TypeAndNameReconstruct ==
    rin.op = "to_str" =>
       LET T  == rin.obj.type
           P  == rin.obj.pointer_layers
           A  == rin.obj.array_layers
           n  == rin.obj.name
           s  == rout.type_str \o " " \o rout.name_str
           lt == Len(T)
           lp == IF P > 0 THEN 1 + P ELSE 0
           ln == lt + lp + 1 + Len(n)
       IN  /\ Len(s) = ln + 2 * A
           /\ SubSeq(s, 1, lt) = T
           /\ P > 0 => SubSeq(s, lt + 1, lt + 1) = " "
           /\ \A k \in 1..P : SubSeq(s, lt + 1 + k, lt + 1 + k) = "*"
           /\ SubSeq(s, lt + lp + 1, lt + lp + 1) = " "
           /\ SubSeq(s, lt + lp + 2, ln) = n
           /\ \A k \in 1..A : SubSeq(s, ln + 2 * k - 1, ln + 2 * k) = "[]"

\* a pointer to pointer, array of arrays was rendered
C9_Witness ==
    /\ rin.op = "to_str"
    /\ rin.obj.pointer_layers = 2
    /\ rin.obj.array_layers = 2
    /\ rin.obj.type = "struct s"
    /\ rin.obj.name = "buf"
    /\ rout.type_str \o " " \o rout.name_str = "struct s ** buf[][]"

(***************************************************************************)
(* C10                                                                     *)
(***************************************************************************)
\* what a line of VersionLines defines: the field, and the value
LineField(line) ==
    CASE line = "#define LVGL_VERSION_MAJOR 9"     -> "major"
      [] line = "#define LVGL_VERSION_MAJOR 8"     -> "major"
      [] line = "#define LVGL_VERSION_MINOR 2"     -> "minor"
      [] line = "#define  LVGL_VERSION_MINOR   0"  -> "minor"
      [] line = "#define LVGL_VERSION_PATCH 1\r\n" -> "patch"
      [] OTHER -> "none"

LineValue(line) ==
    CASE line = "#define LVGL_VERSION_MAJOR 9"     -> 9
      [] line = "#define LVGL_VERSION_MAJOR 8"     -> 8
      [] line = "#define LVGL_VERSION_MINOR 2"     -> 2
      [] line = "#define LVGL_VERSION_PATCH 1\r\n" -> 1
      [] OTHER -> 0

\* the first nonzero value the lines define for the field, 0 when there is none
RECURSIVE FirstNonzero(_, _)
FirstNonzero(field, lines) ==
    IF Len(lines) = 0 THEN 0
    ELSE IF LineField(lines[1]) = field /\ LineValue(lines[1]) # 0
    THEN LineValue(lines[1])
    ELSE FirstNonzero(field, Tail(lines))

\* C10: get_lvgl_version returns, for each of major, minor and patch, the
\* first nonzero value a line defines for it and 0 when no line does,
\* whatever the order of the lines and whatever the fields held before; the
\* lines PATCH 1, MAJOR 9, MINOR 2 give [9, 2, 1].
C10_VersionFirstNonzero ==
    result.op = "get_lvgl_version" =>
       /\ result.exc = ""
       /\ result.ret = << FirstNonzero("major", lvgl_h),
                          FirstNonzero("minor", lvgl_h),
                          FirstNonzero("patch", lvgl_h) >>
       /\ <<lvgl_version_major, lvgl_version_minor, lvgl_version_patch>> = result.ret
       /\ lvgl_h = << "#define LVGL_VERSION_PATCH 1\r\n",
                      "#define LVGL_VERSION_MAJOR 9",
                      "#define LVGL_VERSION_MINOR 2" >> => result.ret = <<9, 2, 1>>

\* the fields held another version before the call; the header defines
\* major twice and minor as 0 before 2
C10_Witness ==
    /\ result.op = "get_lvgl_version"
    /\ ~result.fresh
    /\ lvgl_h = << "#define  LVGL_VERSION_MINOR   0",
                   "#define LVGL_VERSION_MAJOR 8",
                   "#define LVGL_VERSION_MAJOR 9" >>
    /\ result.ret = <<8, 0, 0>>

(***************************************************************************)
(* C11                                                                     *)
(***************************************************************************)
\* the text of a call before its first "("
CallHead(call) == SubSeq(call, 1, FirstParen(call, 1) - 1)

\* the entry e is the wrapper of f under the prefix: the declaration is that
\* of f under the prefixed name, and the call is to f's own name
WrapperOf(prefix, f, e) ==
    /\ e.func_decl = func_to_str([f EXCEPT !.name = prefix \o f.name], FALSE)
    /\ e.func_decl = type_to_str(f) \o " " \o prefix \o f.name
                        \o "(" \o params_to_str(f) \o ")"
    /\ \/ CallHead(e.func_call) = f.name
       \/ CallHead(e.func_call) = type_to_str(f) \o " ret = " \o f.name

\* C11: in every emitted definition and declaration the text that replaces
\* ${func_decl} is to_str(False) of the function under the name prefix + name
\* (the prefix is "safe_" unless another was configured), all else equal, and
\* the call that replaces ${func_call} is to the original name.
C11_WrapperDeclaration ==
    /\ ( rin.op = "gen" /\ rout.func_def.exc = "" ) =>
          WrapperOf("safe_", rin.func, rout.func_def.val)
    /\ ( rin.op = "gen" /\ rout.func_decl.exc = "" ) =>
          WrapperOf("safe_", rin.func, rout.func_decl.val)
    /\ ( rin.op = "wrap" /\ rout.func_def.exc = "" ) =>
          WrapperOf(rin.prefix, rin.func, rout.func_def.val)
    /\ ( rin.op = "wrap" /\ rout.func_decl.exc = "" ) =>
          WrapperOf(rin.prefix, rin.func, rout.func_decl.val)

\* int *g(int a) was emitted under the prefix lv_safe_
C11_Witness ==
    /\ rin.op = "wrap"
    /\ rin.prefix = "lv_safe_"
    /\ rout.func_def.exc = ""
    /\ rout.func_def.val.func_decl = "int * lv_safe_g(int a)"
    /\ rout.func_def.val.func_call = "int * ret = g(a);"
    /\ rout.func_decl.val.func_decl = "int * lv_safe_g(int a)"

(***************************************************************************)
(* C12                                                                     *)
(***************************************************************************)
\* lit occurs in text
Contains(text, lit) ==
    \E k \in 1..(Len(text) - Len(lit) + 1) : SubSeq(text, k, k + Len(lit) - 1) = lit

\* no entry of the blob declares a doubly prefixed name
SinglyPrefixed(blob) ==
    \A i \in 1..Len(blob.contents) :
       ~Contains(blob.contents[i].entry.func_decl, "safe_safe_")

\* C12: a run of gen_safe_lvgl leaves every collected function as it was
\* (name, return type, parameters); a run that follows a completed run writes
\* the same two blobs again, and no emitted name carries the prefix twice.
C12_EmissionLeavesCollected ==
    [][ result'.op = "gen_safe_lvgl" =>
          /\ func_list' = func_list
          /\ ( result.op = "gen_safe_lvgl" /\ result.exc = "" ) =>
                /\ result'.exc = ""
                /\ safe_lvgl_c' = safe_lvgl_c
                /\ safe_lvgl_h' = safe_lvgl_h
          /\ SinglyPrefixed(safe_lvgl_c')
          /\ SinglyPrefixed(safe_lvgl_h') ]_vars

\* two collected functions were emitted, and the list still holds them under
\* their own names
C12_Witness ==
    /\ result.op = "gen_safe_lvgl"
    /\ result.exc = ""
    /\ Len(func_list) = 2
    /\ func_list[1].name = "lv_foo"
    /\ func_list[2].name = "lv_public"
    /\ Len(safe_lvgl_c.contents) = 2
    /\ safe_lvgl_c.contents[1].entry.func_decl = "int safe_lv_foo(int a)"
    /\ safe_lvgl_h.contents[2].entry.func_decl = "int * safe_lv_public(int a, char * b)"

(***************************************************************************)
(* C13                                                                     *)
(***************************************************************************)
\* C13: when the conversion of a function node fails, with a warning (a
\* variadic parameter) or with an exception that escapes (any other
\* unsupported construct, in the return type or in a parameter at any
\* position), the collected list after the node is the list before it.
C13_FailedConversionAddsNothing ==
    [][ ( /\ Len(hist') = Len(hist) + 1
          /\ hist'[Len(hist')].outcome \in {"warning", "raised"} )
        => func_list' = func_list ]_vars

\* lv_public was collected, then the conversion of
\* int lv_foo(int a, char *b, ...) failed at its third parameter
C13_Witness ==
    /\ Len(hist) = 2
    /\ hist[1].outcome = "added"
    /\ NodeName(hist[1].node) = "lv_public"
    /\ hist[2].node = Function("lv_foo", <<ParamA, ParamB, EllipsisParam>>, IntType)
    /\ hist[2].outcome = "warning"
    /\ Len(func_list) = 1
    /\ func_list[1].name = NodeName(hist[1].node)

(***************************************************************************)
(* C14                                                                     *)
(***************************************************************************)
\* the number of wrappers of the kind
CountOf(wrappers, kind) == Cardinality({i \in 1..Len(wrappers) : wrappers[i] = kind})

\* every array wrapper is outside every pointer wrapper
ArraysOutsidePointers(wrappers) ==
    \A i, j \in 1..Len(wrappers) :
       ( wrappers[i] = "PtrDecl" /\ wrappers[j] = "ArrayDecl" ) => j < i

\* the base type the terminal names; "" for a terminal of no supported kind
BaseTypeOf(terminal) ==
    IF terminal.type.kind = "Struct" THEN "struct " \o terminal.type.name
    ELSE IF terminal.type.kind = "IdentifierType" THEN Head(terminal.type.names)
    ELSE IF terminal.type.kind = "Enum" THEN "enum " \o terminal.type.name
    ELSE ""

\* C14: for A array wrappers outside P pointer wrappers around a terminal that
\* names a struct or an identifier, __get_nesting_type__ returns the base type
\* ("struct " + tag, or the first name of the identifier: "unsigned" for
\* unsigned long), A array layers and P pointer layers.
C14_ResolveArraysOutsidePointers ==
    ( /\ rin.op = "resolve"
      /\ ArraysOutsidePointers(rin.wrappers)
      /\ rin.terminal.type.kind \in {"Struct", "IdentifierType"} )
    => /\ rout.type = Return(<< BaseTypeOf(rin.terminal),
                                CountOf(rin.wrappers, "ArrayDecl"),
                                CountOf(rin.wrappers, "PtrDecl") >>)
       /\ rin.terminal.type.kind = "IdentifierType"
             => rout.type.val[1] \in {"int", "unsigned"}

\* unsigned long **x[] was resolved
C14_Witness ==
    /\ rin.op = "resolve"
    /\ rin.wrappers = <<"ArrayDecl", "PtrDecl", "PtrDecl">>
    /\ rin.terminal = TypeDecl(IdentifierType(<<"unsigned", "long">>))
    /\ rout.type = Return(<<"unsigned", 1, 2>>)

(***************************************************************************)
(* C15                                                                     *)
(***************************************************************************)
\* C15: a declarator whose wrappers are in any order is resolved to the total
\* number of array wrappers and the total number of pointer wrappers.
C15_ResolveInterleaved ==
    ( /\ rin.op = "resolve"
      /\ ~ArraysOutsidePointers(rin.wrappers)
      /\ rin.terminal.type.kind \in {"Struct", "IdentifierType"} )
    => /\ rout.type.exc = ""
       /\ rout.type.val[2] = CountOf(rin.wrappers, "ArrayDecl")
       /\ rout.type.val[3] = CountOf(rin.wrappers, "PtrDecl")

\* What the code does: a pointer wrapper outside an array wrapper ends the
\* resolution with Exception("Unknown type").
C15_InterleavedRaises ==
    ( /\ rin.op = "resolve"
      /\ ~ArraysOutsidePointers(rin.wrappers) )
    => rout.type = Raise("Exception")

(***************************************************************************)
(* C16                                                                     *)
(***************************************************************************)
\* C16: a declarator whose terminal names an enum is resolved to the base type
\* "enum " + tag, alone and as the type of a named parameter, under pointer
\* and array wrappers too.
C16_EnumBaseType ==
    ( /\ rin.op = "resolve"
      /\ ArraysOutsidePointers(rin.wrappers)
      /\ rin.terminal.type.kind = "Enum" )
    => /\ rout.type.exc = ""
       /\ rout.type.val[1] = "enum " \o rin.terminal.type.name
       /\ rout.param.exc = ""
       /\ rout.param.val.type = "enum " \o rin.terminal.type.name

\* What the code does: a terminal that names an enum (or a union) ends the
\* resolution with Exception("Unknown type in TypeDecl").
C16_EnumRaises ==
    ( /\ rin.op = "resolve"
      /\ ArraysOutsidePointers(rin.wrappers)
      /\ rin.terminal.type.kind \in {"Enum", "Union"} )
    => /\ rout.type = Raise("Exception")
       /\ rout.param = Raise("Exception")

(***************************************************************************)
(* C17                                                                     *)
(***************************************************************************)
\* the qualifiers and the storage class, each followed by a space
SpecifiersOf(obj) ==
    (IF Len(obj.quals) > 0 THEN Join(obj.quals, " ") \o " " ELSE "")
    \o (IF Len(obj.storage) > 0 THEN Join(obj.storage, " ") \o " " ELSE "")

\* C17: to_str emits the type part as "void" alone only when type_to_str() is
\* "void" and the object has no name; in every other case, a name or array
\* layers included, the type part is type_to_str() + " " + name_to_str(True);
\* the qualifiers and storage class come before it, and ";" only after
\* to_str(semicolon = True).
C17_VoidAloneOnlyWhenUnnamed ==
    rin.op = "to_str" =>
       /\ rout.decl =
             SpecifiersOf(rin.obj)
             \o (IF rout.type_str = "void" /\ rin.obj.name = ""
                 THEN "void"
                 ELSE rout.type_str \o " " \o rout.name_str)
       /\ rout.decl_semicolon = rout.decl \o ";"

\* What the code does: the type part is "void" alone whenever type_to_str()
\* is "void", whatever the name and the array layers.
C17_VoidAloneWhenVoid ==
    rin.op = "to_str" =>
       /\ rout.decl =
             SpecifiersOf(rin.obj)
             \o (IF rout.type_str = "void"
                 THEN "void"
                 ELSE rout.type_str \o " " \o rout.name_str)
       /\ rout.decl_semicolon = rout.decl \o ";"

(***************************************************************************)
(* C18                                                                     *)
(***************************************************************************)
\* the blob has one entry per collected function, in the order of the list,
\* each followed by the separator
BlobFollows(blob, list) ==
    /\ blob.written
    /\ Len(blob.contents) = Len(list)
    /\ \A i \in 1..Len(list) :
          /\ Contains(blob.contents[i].entry.func_decl, " safe_" \o list[i].name \o "(")
          /\ CallHead(blob.contents[i].entry.func_call) \in
                { list[i].name, type_to_str(list[i]) \o " ret = " \o list[i].name }
          /\ blob.contents[i].sep = "\r\n\r\n"

\* C18: after a run of gen_safe_lvgl that completed, the content of
\* safe_lvgl.c and that of safe_lvgl.h each hold one entry per collected
\* function, in the order of the collected list, each followed by "\r\n\r\n";
\* both are empty when nothing was collected.
C18_OneEntryPerFunctionInOrder ==
    ( result.op = "gen_safe_lvgl" /\ result.exc = "" ) =>
       /\ BlobFollows(safe_lvgl_c, func_list)
       /\ BlobFollows(safe_lvgl_h, func_list)
       /\ Len(func_list) = 0 =>
             safe_lvgl_c.contents = <<>> /\ safe_lvgl_h.contents = <<>>

\* int *lv_public(int a, char *b) and void lv_foo(void) were collected in
\* that order and emitted
C18_Witness ==
    /\ result.op = "gen_safe_lvgl"
    /\ result.exc = ""
    /\ Len(func_list) = 2
    /\ func_list[1].name = "lv_public"
    /\ func_list[2].name = "lv_foo"
    /\ safe_lvgl_c.contents[1].entry.func_decl = "int * safe_lv_public(int a, char * b)"
    /\ safe_lvgl_c.contents[2].entry.func_decl = "void safe_lv_foo(void)"
    /\ safe_lvgl_h.contents[1].entry.func_call = "int * ret = lv_public(a, b);"
    /\ safe_lvgl_h.contents[2].entry.func_call = "lv_foo();"

\* nothing was collected, and both files were written empty
C18_WitnessEmpty ==
    /\ result.op = "gen_safe_lvgl"
    /\ func_list = <<>>
    /\ safe_lvgl_c = [written |-> TRUE, contents |-> <<>>]
    /\ safe_lvgl_h = [written |-> TRUE, contents |-> <<>>]

(***************************************************************************)
(* C19                                                                     *)
(***************************************************************************)
\* the entry returns ret exactly when its call declares ret
FragmentsAgree(e) ==
    (e.func_ret = "return ret;") <=> Contains(e.func_call, " ret = ")

\* C19: in every emitted definition (and declaration) "return ret;" is
\* emitted if and only if the call fragment declares ret, for every return
\* type, pointer to void included.
C19_ReturnIffRetDeclared ==
    /\ ( rin.op \in {"gen", "wrap"} /\ rout.func_def.exc = "" ) =>
          FragmentsAgree(rout.func_def.val)
    /\ ( rin.op \in {"gen", "wrap"} /\ rout.func_decl.exc = "" ) =>
          FragmentsAgree(rout.func_decl.val)

\* What the code does: the fragments agree unless the return type is a
\* pointer to void, for which ret is declared and never returned.
C19_AgreeUnlessPointerToVoid ==
    ( rin.op \in {"gen", "wrap"} /\ rout.func_def.exc = "" ) =>
       IF rin.func.type = "void" /\ rin.func.pointer_layers > 0
       THEN /\ Contains(rout.func_def.val.func_call, "void * ret = ")
            /\ rout.func_def.val.func_ret = ""
       ELSE FragmentsAgree(rout.func_def.val)

(***************************************************************************)
(* C20                                                                     *)
(***************************************************************************)
\* some parameter of f that is not of type void has no name
HasUnnamedParam(f) ==
    \E k \in 1..Len(f.params) :
       type_to_str(f.params[k]) # "void" /\ f.params[k].name = None

\* C20: every parameter of a collected function whose rendered type is not
\* "void" has a name that is a string, and a run of gen_safe_lvgl never ends
\* with an exception raised by to_str or gen_func_call.
C20_CollectedCanBeEmitted ==
    /\ \A i \in 1..Len(func_list) : ~HasUnnamedParam(func_list[i])
    /\ result.op = "gen_safe_lvgl" => result.exc = ""

\* What the code does: a run of gen_safe_lvgl ends with TypeError exactly
\* when a collected function has an unnamed parameter not of type void, and
\* completes otherwise.
C20_EmittedUnlessUnnamedParam ==
    result.op = "gen_safe_lvgl" =>
       IF \E i \in 1..Len(func_list) : HasUnnamedParam(func_list[i])
       THEN result.exc = "TypeError"
       ELSE result.exc = ""

(***************************************************************************)
(* C21                                                                     *)
(***************************************************************************)
\* some pattern of the list matches the name from its start
MatchesFromStart(patterns, name) ==
    \E i \in 1..Len(patterns) : StartsWith(name, patterns[i])

\* C21: when a parse call has returned, no collected function has a name
\* that a pattern of the blacklist matches from its start (the patterns are
\* those the call began with: none is added while parse runs).
C21_CollectedNeverBlacklisted ==
    ( result.op = "parse" /\ ~result.running /\ result.exc = "" ) =>
       \A i \in 1..Len(func_list) :
          ~MatchesFromStart(blacklist_func_patterns, func_list[i].name)

\* What the code does: a function is matched against the patterns when it is
\* collected, and the functions collected by earlier parse calls stay.
C21_NotBlacklistedWhenCollected ==
    [][ ( /\ Len(hist') = Len(hist) + 1
          /\ hist'[Len(hist')].outcome = "added" )
        => /\ ~MatchesFromStart(blacklist_func_patterns,
                                NodeName(hist'[Len(hist')].node))
           /\ SubSeq(func_list', 1, Len(func_list)) = func_list ]_vars

(***************************************************************************)
(* C22                                                                     *)
(***************************************************************************)
\* some collected function of the list has the name
Collected(list, name) == \E i \in 1..Len(list) : list[i].name = name

\* C22: a function node whose name a pattern matches is discarded as
\* blacklisted, and otherwise one whose name is already collected is
\* discarded as a duplicate, before its signature is converted: whatever the
\* signature (unsupported construct, variadic parameter), there is no
\* warning, no exception, and the parse call goes on with the list as it was.
C22_ChecksBeforeConversion ==
    [][ ( /\ Len(hist') = Len(hist) + 1
          /\ IsFunctionNode(hist'[Len(hist')].node) )
        => LET h == hist'[Len(hist')]
               n == NodeName(h.node)
           IN  /\ MatchesFromStart(blacklist_func_patterns, n) =>
                     /\ h.outcome = "blacklist"
                     /\ pc' = "parse"
                     /\ result' = result
                     /\ func_list' = func_list
               /\ ( ~MatchesFromStart(blacklist_func_patterns, n)
                    /\ Collected(func_list, n) ) =>
                     /\ h.outcome = "duplicate"
                     /\ pc' = "parse"
                     /\ result' = result
                     /\ func_list' = func_list ]_vars

\* lv_public was collected, then void lv_public(int (*cb)(int)), whose
\* parameter is unsupported, was discarded as a duplicate and parse went on
C22_Witness ==
    /\ pc = "parse"
    /\ Len(hist) = 2
    /\ hist[1].outcome = "added"
    /\ hist[2].node = Function("lv_public", <<ParamCallback>>, VoidType)
    /\ UnsupportedDecl(FunctionDeclOf(hist[2].node))
    /\ hist[2].outcome = "duplicate"
    /\ result.exc = ""

\* void lv_public(int (*cb)(int)), whose parameter is unsupported, was
\* discarded as blacklisted under the added pattern and parse went on
C22_WitnessBlacklisted ==
    /\ pc = "parse"
    /\ Len(hist) > 0
    /\ LastNode.node = Function("lv_public", <<ParamCallback>>, VoidType)
    /\ LastNode.outcome = "blacklist"
    /\ result.exc = ""

====
